---- MODULE Spec2Model ----
(***************************************************************************)
(* The streaming audit endpoint of web-freelance-crm.                       *)
(*                                                                         *)
(*   GET /audit        src/routes/audit.js:1-35 (the same handler is       *)
(*                     inlined in src/unnamed/part_001:23-57)              *)
(*   WebsiteAudit      src/WebsiteAudit/index.js, the class the server     *)
(*                     imports (src/unnamed/part_001:5) and the only one   *)
(*                     that has auditSiteWithProgress                      *)
(*                                                                         *)
(* One request is one async task.  A task runs until its next `await` of   *)
(* an external call (the page GET, chromeLauncher.launch, lighthouse,      *)
(* chrome.kill) and is resumed when that call settles; an action of this   *)
(* module is one such run, from the resumption to the next external call.  *)
(* Several requests are in flight at once and interleave at these points.  *)
(*                                                                         *)
(* auditSiteWithProgress reads an identifier it never declared right after *)
(* the browser audit returns (index.js:235-236), so its analysis and       *)
(* scoring stages (index.js:241-253) are never entered from the endpoint.  *)
(***************************************************************************)
EXTENDS Integers, Sequences, FiniteSets, TLC

\* Number of requests in flight.
NumReqs == 2

Reqs == 1..NumReqs

----------------------------------------------------------------------------
(* JavaScript values *)

Undefined == "undefined"
Null == "null"

\* An object-or-null value: the null reference.
NullObj == [null |-> TRUE]

\* `req.query.site`: absent, empty, or a URL.
SiteURL == "https://site.test"
Sites == {Undefined, "", SiteURL}

\* `response.data` of a successful GET: a page, or an empty body.
PageHTML == "<html><title>t</title></html>"

\* Mutant: only an absent parameter is rejected (`site === undefined`).
TruthyUnlessUndefined(v) == v # Undefined

\* Mutant: only null and undefined are refused (`html == null`).
TruthyUnlessNullish(v) == v \notin {Undefined, Null}

\* JS truthiness of a string, null or undefined: `if (!site)`, `if (!html)`.
Truthy(v) == v \notin {Undefined, Null, ""}

\* JS truthiness of an object-or-null value: `if (results)`.
IsObject(v) == "null" \notin DOMAIN v

----------------------------------------------------------------------------
(* Outcomes of the external calls *)

FetchOutcomes == {"ok", "empty", "error"}       \* axios.get(url)
LaunchOutcomes == {"ok", "throws"}              \* chromeLauncher.launch
LighthouseOutcomes == {"ok", "noresult", "throws"} \* lighthouse(url, options)
KillOutcomes == {"ok", "throws"}                \* chrome.kill()

NoOutcome == [fetch |-> "-", launch |-> "-", lighthouse |-> "-", kill |-> "-"]

\* Mutant: the audit is restricted to the seo category.
OnlyCategoriesSeo == {"seo"}

\* `this.lighthouseOptions.onlyCategories`
OnlyCategories == {"performance", "seo", "accessibility", "best-practices"}

\* `result.lhr` of a successful lighthouse run (scores in hundredths).
Lhr == [categories |-> [c \in OnlyCategories |-> 100]]

----------------------------------------------------------------------------
VARIABLES
    site,          \* req.query.site of each request
    pc,            \* where each request's task is suspended
    status,        \* HTTP status of each response (0: none sent yet)
    body,          \* JSON body sent with res.json
    headers,       \* headers set with res.setHeader
    stream,        \* per response object: the res.write / res.end calls, in order
    websiteAudit,  \* whether `new WebsiteAudit()` was constructed for the request
    emitted,       \* the messages each orchestrator passed to emitProgress, in order
    html,          \* `html` of auditSiteWithProgress
    chrome,        \* the browser process of the request: none, alive, killed
    pending,       \* what runLighthouseAudit's try/catch left to return after finally
    settled,       \* how the promise of auditSiteWithProgress settled
    calls,         \* the external calls each request issued, in order
    outcome,       \* history: how each external call of the request ended
    \* A method of WebsiteAudit called directly (as the tests and auditSite do):
    entry,         \* the method that was called
    at,            \* where the call is suspended
    baseUrl,       \* its `url` / `baseUrl` argument
    doc,           \* the page behind its `html` argument
    lighthouseResults, \* the browser audit's result
    seoData,       \* the SEO signals, as far as they are computed
    local,         \* the other locals of the running methods
    probes,        \* history: the GETs issued by the sub-checks and how they ended
    ret            \* how the call ended: pending, a value, or an exception

\* The variables of the streaming endpoint, and those of a direct call.
endpoint == <<site, pc, status, body, headers, stream, websiteAudit, emitted, html,
              chrome, pending, settled, calls, outcome>>
direct == <<entry, at, baseUrl, doc, lighthouseResults, seoData, local, probes, ret>>

vars == <<site, pc, status, body, headers, stream, websiteAudit, emitted, html,
          chrome, pending, settled, calls, outcome,
          entry, at, baseUrl, doc, lighthouseResults, seoData, local, probes, ret>>

----------------------------------------------------------------------------
(* Events on the stream *)

\* `data: ${JSON.stringify({ progress: message })}\n\n`
Progress(msg, r) == [progress |-> msg, by |-> r]
\* `data: ${JSON.stringify({ error: ... })}\n\n`
ErrorEvent(msg, r) == [error |-> msg, by |-> r]
\* `data: ${JSON.stringify({ results })}\n\n`
ResultsEvent(res, r) == [results |-> res, by |-> r]
\* res.end()
EndMark(r) == [end |-> TRUE, by |-> r]

IsProgress(e) == "progress" \in DOMAIN e
IsError(e) == "error" \in DOMAIN e
IsResults(e) == "results" \in DOMAIN e
IsEnd(e) == "end" \in DOMAIN e
IsTerminal(e) == IsError(e) \/ IsResults(e)

\* SSE headers of an accepted request.
SSEHeaders == { <<"Content-Type", "text/event-stream">>,
                <<"Cache-Control", "no-cache">>,
                <<"Connection", "keep-alive">> }

\* Mutant: the response object is kept in a module-level variable that the
\* first request set, so every closure writes to that one response.
ResOfShared(r) == 1

\* The response object captured by request r's handler and by its
\* emitProgress closure.
ResOf(r) == r

\* The options runLighthouseAudit passes to lighthouse: those of the
\* constructor (the port of the launched browser is added to them).
LighthouseOptions == [output |-> "json", onlyCategories |-> OnlyCategories]

\* A call that takes options.
WithOptions(c, opts) == [op |-> c.op, arg |-> c.arg, seen |-> c.seen, options |-> opts]

\* Mutant: the call is issued before the emitProgress that precedes it in
\* the code.
CallBeforeEmit(op, arg, seen) == [op |-> op, arg |-> arg, seen |-> seen - 1]

\* An external call, with the number of progress events emitted before it.
Call(op, arg, seen) == [op |-> op, arg |-> arg, seen |-> seen]

----------------------------------------------------------------------------
(* WebsiteAudit *)

\* Mutant: the catch block of fetchHTML logs and returns nothing.
FetchHTMLUndefinedOnError(o) ==
    CASE o = "ok" -> PageHTML
      [] o = "empty" -> ""
      [] OTHER -> Undefined

\* Mutant: the catch block of fetchHTML returns a placeholder page.
FetchHTMLFallbackPage(o) == IF o = "empty" THEN "" ELSE PageHTML

\* fetchHTML: the body on success, null on any rejection.
FetchHTML(o) ==
    CASE o = "ok" -> PageHTML
      [] o = "empty" -> ""
      [] OTHER -> Null

\* Mutant: the fetch failure is not announced on the progress channel.
FetchFailedNoticeNone == <<>>

\* auditSiteWithProgress: what is emitted when `!html`.
FetchFailedNotice == <<"Failed to fetch HTML.">>

\* runLighthouseAudit, try/catch: `result.lhr`, or null when the run throws or
\* resolves with no result (`result.lhr` of undefined throws inside the try).
AuditValue(o) == IF o = "ok" THEN Lhr ELSE NullObj

\* Mutant: chrome.kill() at the end of the try block instead of in finally.
FinallyKillsTryOnly(c, threw) == c = "alive" /\ ~threw

\* Mutant: no finally block.
FinallyKillsNever(c, threw) == FALSE

\* runLighthouseAudit, finally: `if (chrome) await chrome.kill()`, on every
\* path, whether or not the try block threw.
FinallyKills(c, threw) == c = "alive"

\* auditSiteWithProgress binds the audit's result to one identifier ...
AuditBinding == "lightushouseResults"
\* ... and reads another, which no scope declares.
AuditRead == "lighthouseResults"

ReferenceError(name) == [rejected |-> name \o " is not defined"]

KillError == [rejected |-> "Chrome could not be killed"]

\* auditSiteWithProgress from the return of runLighthouseAudit (value v) to
\* its next suspension: the messages emitted, how the promise settles, and
\* where the task continues.
AfterAudit(v) ==
    IF AuditRead # AuditBinding
    THEN [emit |-> <<>>, settled |-> ReferenceError(AuditRead), pc |-> "handler"]
    ELSE IF ~IsObject(v)
         THEN [emit |-> <<"Failed to run Lighthouse audit.">>,
               settled |-> [fulfilled |-> NullObj], pc |-> "handler"]
         ELSE [emit |-> <<"Analyzing on-page SEO...">>,
               settled |-> [pending |-> TRUE], pc |-> "analyzeOnPageSEO"]

----------------------------------------------------------------------------
(* The handler after `await websiteAudit.auditSiteWithProgress(...)` *)

\* Mutant: no catch block; a rejection leaves the handler before res.end().
HandlerTailNoCatch(s, r) ==
    IF "rejected" \in DOMAIN s
    THEN <<>>
    ELSE IF IsObject(s.fulfilled)
         THEN <<ResultsEvent(s.fulfilled, r), EndMark(r)>>
         ELSE <<ErrorEvent("Audit failed.", r), EndMark(r)>>

\* Mutant: the 'Audit failed.' write moved after the try/catch.
HandlerTailErrorAfterCatch(s, r) ==
    IF "rejected" \in DOMAIN s
    THEN <<ErrorEvent(s.rejected, r), ErrorEvent("Audit failed.", r), EndMark(r)>>
    ELSE IF IsObject(s.fulfilled)
         THEN <<ResultsEvent(s.fulfilled, r), EndMark(r)>>
         ELSE <<ErrorEvent("Audit failed.", r), EndMark(r)>>

\* Mutant: res.end() also at the end of the catch block.
HandlerTailEndInCatch(s, r) ==
    IF "rejected" \in DOMAIN s
    THEN <<ErrorEvent(s.rejected, r), EndMark(r), EndMark(r)>>
    ELSE IF IsObject(s.fulfilled)
         THEN <<ResultsEvent(s.fulfilled, r), EndMark(r)>>
         ELSE <<ErrorEvent("Audit failed.", r), EndMark(r)>>

\* The res.write and res.end calls of the handler once the orchestrator's
\* promise has settled as s.
HandlerTail(s, r) ==
    IF "rejected" \in DOMAIN s
    THEN <<ErrorEvent(s.rejected, r), EndMark(r)>>
    ELSE IF IsObject(s.fulfilled)
         THEN <<ResultsEvent(s.fulfilled, r), EndMark(r)>>
         ELSE <<ErrorEvent("Audit failed.", r), EndMark(r)>>

----------------------------------------------------------------------------
\* No method is called directly.
NoDirectCall ==
    /\ entry = "none"
    /\ at = "idle"
    /\ baseUrl = Undefined
    /\ doc = NullObj
    /\ lighthouseResults = NullObj
    /\ seoData = NullObj
    /\ local = NullObj
    /\ probes = <<>>
    /\ ret = [pending |-> TRUE]

Init ==
    /\ site \in [Reqs -> Sites]
    /\ pc = [r \in Reqs |-> "start"]
    /\ status = [r \in Reqs |-> 0]
    /\ body = [r \in Reqs |-> [none |-> TRUE]]
    /\ headers = [r \in Reqs |-> {}]
    /\ stream = [r \in Reqs |-> <<>>]
    /\ websiteAudit = [r \in Reqs |-> FALSE]
    /\ emitted = [r \in Reqs |-> <<>>]
    /\ html = [r \in Reqs |-> Undefined]
    /\ chrome = [r \in Reqs |-> "none"]
    /\ pending = [r \in Reqs |-> NullObj]
    /\ settled = [r \in Reqs |-> [pending |-> TRUE]]
    /\ calls = [r \in Reqs |-> <<>>]
    /\ outcome = [r \in Reqs |-> NoOutcome]
    /\ NoDirectCall

\* emitProgress(m) for each m of msgs, then the entries of tail, on r's response.
Emit(r, msgs, tail) ==
    /\ emitted' = [emitted EXCEPT ![r] = @ \o msgs]
    /\ stream' = [stream EXCEPT ![ResOf(r)] =
                    @ \o [i \in 1..Len(msgs) |-> Progress(msgs[i], r)] \o tail]

\* The request arrives: the handler up to the GET of fetchHTML.
Handle(r) ==
    /\ pc[r] = "start"
    /\ IF ~Truthy(site[r])
       THEN /\ status' = [status EXCEPT ![r] = 400]
            /\ body' = [body EXCEPT ![r] = [error |-> "Site URL is required."]]
            /\ pc' = [pc EXCEPT ![r] = "rejected"]
            /\ UNCHANGED <<headers, stream, websiteAudit, emitted, calls>>
       ELSE /\ headers' = [headers EXCEPT ![r] = SSEHeaders]
            /\ websiteAudit' = [websiteAudit EXCEPT ![r] = TRUE]
            /\ status' = [status EXCEPT ![r] = 200]
            /\ Emit(r, <<"Fetching HTML...">>, <<>>)
            /\ calls' = [calls EXCEPT ![r] = Append(@, Call("GET", site[r], Len(emitted'[r])))]
            /\ pc' = [pc EXCEPT ![r] = "fetchHTML"]
            /\ UNCHANGED body
    /\ UNCHANGED <<site, html, chrome, pending, settled, outcome>>

\* The GET settles: fetchHTML returns, auditSiteWithProgress goes on to the
\* browser launch or gives up.
FetchReturns(r) ==
    /\ pc[r] = "fetchHTML"
    /\ \E o \in FetchOutcomes :
        /\ outcome' = [outcome EXCEPT ![r].fetch = o]
        /\ html' = [html EXCEPT ![r] = FetchHTML(o)]
        /\ IF ~Truthy(FetchHTML(o))
           THEN /\ Emit(r, FetchFailedNotice, <<>>)
                /\ settled' = [settled EXCEPT ![r] = [fulfilled |-> NullObj]]
                /\ pc' = [pc EXCEPT ![r] = "handler"]
                /\ UNCHANGED calls
           ELSE /\ Emit(r, <<"Running Lighthouse audit...">>, <<>>)
                /\ calls' = [calls EXCEPT ![r] = Append(@, Call("launch", "--headless", Len(emitted'[r])))]
                /\ pc' = [pc EXCEPT ![r] = "launch"]
                /\ UNCHANGED settled
    /\ UNCHANGED <<site, status, body, headers, websiteAudit, chrome, pending>>

\* chromeLauncher.launch settles.
LaunchReturns(r) ==
    /\ pc[r] = "launch"
    /\ \E o \in LaunchOutcomes :
        /\ outcome' = [outcome EXCEPT ![r].launch = o]
        /\ IF o = "ok"
           THEN /\ chrome' = [chrome EXCEPT ![r] = "alive"]
                /\ calls' = [calls EXCEPT ![r] =
                               Append(@, WithOptions(Call("lighthouse", site[r], Len(emitted[r])),
                                                    LighthouseOptions))]
                /\ pc' = [pc EXCEPT ![r] = "lighthouse"]
                /\ UNCHANGED <<stream, emitted, pending, settled>>
           ELSE \* catch: return null; finally: chrome is undefined
                LET k == AfterAudit(NullObj) IN
                /\ Emit(r, k.emit, <<>>)
                /\ settled' = [settled EXCEPT ![r] = k.settled]
                /\ pc' = [pc EXCEPT ![r] = k.pc]
                /\ UNCHANGED <<chrome, calls, pending>>
    /\ UNCHANGED <<site, status, body, headers, websiteAudit, html>>

\* lighthouse settles: the try block returns or the catch returns null, then
\* the finally block runs.
LighthouseReturns(r) ==
    /\ pc[r] = "lighthouse"
    /\ \E o \in LighthouseOutcomes :
        /\ outcome' = [outcome EXCEPT ![r].lighthouse = o]
        /\ IF FinallyKills(chrome[r], o # "ok")
           THEN /\ pending' = [pending EXCEPT ![r] = AuditValue(o)]
                /\ calls' = [calls EXCEPT ![r] = Append(@, Call("kill", "chrome", Len(emitted[r])))]
                /\ pc' = [pc EXCEPT ![r] = "kill"]
                /\ UNCHANGED <<stream, emitted, settled>>
           ELSE LET k == AfterAudit(AuditValue(o)) IN
                /\ Emit(r, k.emit, <<>>)
                /\ settled' = [settled EXCEPT ![r] = k.settled]
                /\ pc' = [pc EXCEPT ![r] = k.pc]
                /\ UNCHANGED <<calls, pending>>
    /\ UNCHANGED <<site, status, body, headers, websiteAudit, html, chrome>>

\* chrome.kill() settles.  The process is taken to be gone once kill() has
\* settled; a rejection leaves the finally block as an exception, replacing
\* the pending return value.
KillReturns(r) ==
    /\ pc[r] = "kill"
    /\ \E o \in KillOutcomes :
        /\ outcome' = [outcome EXCEPT ![r].kill = o]
        /\ chrome' = [chrome EXCEPT ![r] = "killed"]
        /\ IF o = "ok"
           THEN LET k == AfterAudit(pending[r]) IN
                /\ Emit(r, k.emit, <<>>)
                /\ settled' = [settled EXCEPT ![r] = k.settled]
                /\ pc' = [pc EXCEPT ![r] = k.pc]
           ELSE /\ settled' = [settled EXCEPT ![r] = KillError]
                /\ pc' = [pc EXCEPT ![r] = "handler"]
                /\ UNCHANGED <<stream, emitted>>
    /\ UNCHANGED <<site, status, body, headers, websiteAudit, html, pending, calls>>

\* The handler resumes after the orchestrator's promise settled.
HandlerResumes(r) ==
    /\ pc[r] = "handler"
    /\ Emit(r, <<>>, HandlerTail(settled[r], r))
    /\ pc' = [pc EXCEPT ![r] = "finished"]
    /\ UNCHANGED <<site, status, body, headers, websiteAudit, html, chrome,
                   pending, settled, calls, outcome>>

Step(r) ==
    \/ Handle(r)
    \/ FetchReturns(r)
    \/ LaunchReturns(r)
    \/ LighthouseReturns(r)
    \/ KillReturns(r)
    \/ HandlerResumes(r)

Next == \E r \in Reqs : Step(r) /\ UNCHANGED direct

Spec == Init /\ [][Next]_vars

\* Every external call eventually settles and every resumed task runs.
LiveSpec == Spec /\ \A r \in Reqs : WF_vars(Step(r) /\ UNCHANGED direct)

----------------------------------------------------------------------------
(* Observations *)

Rejected(r) == pc[r] = "rejected"
Accepted(r) == pc[r] \notin {"start", "rejected"}
Finished(r) == pc[r] = "finished"

Terminals(r) == SelectSeq(stream[r], IsTerminal)
Progresses(r) == SelectSeq(stream[r], IsProgress)
Ends(r) == SelectSeq(stream[r], IsEnd)
ProgressLabels(r) == [i \in 1..Len(Progresses(r)) |-> Progresses(r)[i].progress]

\* The client has been sent a terminal event on an open stream.
Delivered(r) ==
    \E i \in 1..Len(stream[r]) :
        /\ IsTerminal(stream[r][i])
        /\ \A j \in 1..i : ~IsEnd(stream[r][j])

IsPrefix(s, t) == Len(s) <= Len(t) /\ \A i \in 1..Len(s) : s[i] = t[i]

\* The browser audit of the request failed: at launch or in the run.
AuditFailed(r) ==
    /\ outcome[r].fetch = "ok"
    /\ \/ outcome[r].launch = "throws"
       \/ outcome[r].lighthouse \in {"noresult", "throws"}

\* Fetch, launch, run and teardown all succeeded.
AllSucceeded(r) ==
    /\ outcome[r].fetch = "ok"
    /\ outcome[r].launch = "ok"
    /\ outcome[r].lighthouse = "ok"
    /\ outcome[r].kill = "ok"

\* The labels auditSiteWithProgress emits on its way to a result, in order.
StageLabels == <<"Fetching HTML...", "Running Lighthouse audit...",
                 "Analyzing on-page SEO...", "Calculating SEO score...",
                 "Audit complete.">>

----------------------------------------------------------------------------
(* Claims *)

\* C1: a request whose `site` is missing or empty is answered 400 with
\* {error: 'Site URL is required.'}; no event-stream header is set, nothing is
\* written to the stream, no orchestrator is constructed and no external
\* call is issued.
C1_MissingSiteRejected ==
    \A r \in Reqs :
        (site[r] \in {Undefined, ""} /\ pc[r] # "start") =>
            /\ status[r] = 400
            /\ body[r] = [error |-> "Site URL is required."]
            /\ headers[r] = {}
            /\ \A q \in Reqs : \A i \in 1..Len(stream[q]) : stream[q][i].by # r
            /\ emitted[r] = <<>>
            /\ ~websiteAudit[r]
            /\ calls[r] = <<>>

C1_Witness ==
    \E r \in Reqs : site[r] = "" /\ Rejected(r) /\ status[r] = 400

\* C2: an accepted request gets at most one terminal event at any time, and
\* exactly one (a results event or an error event) once its handler is done,
\* whatever the stages did.
C2_OneTerminalEvent ==
    \A r \in Reqs :
        /\ Len(Terminals(r)) <= 1
        /\ (Accepted(r) /\ Finished(r)) => Len(Terminals(r)) = 1

C2_Witness ==
    \E r \in Reqs :
        /\ Finished(r)
        /\ "rejected" \in DOMAIN settled[r]
        /\ Len(Terminals(r)) = 1

\* C3: when every external call settles, an accepted request is eventually
\* sent its terminal event, and its stream is never closed without one.
C3_EventuallyTerminal ==
    \A r \in Reqs :
        /\ Accepted(r) ~> (Delivered(r) /\ Len(Ends(r)) > 0)
        /\ [](Len(Ends(r)) > 0 => Delivered(r))

C3_Witness ==
    \E r \in Reqs :
        /\ outcome[r].kill = "throws"
        /\ Delivered(r)
        /\ Len(Ends(r)) > 0

\* C4: the stream is closed at most once, exactly once when the handler is
\* done; the close comes right after the terminal event; nothing is written
\* after the terminal event except the close; the progress events on the
\* stream are the orchestrator's, in the order it emitted them.
C4_ClosedOnceAfterTerminal ==
    \A r \in Reqs :
        LET s == stream[r] IN
        /\ Len(Ends(r)) <= 1
        /\ (Accepted(r) /\ Finished(r)) => Len(Ends(r)) = 1
        /\ \A i \in 1..Len(s) :
              /\ IsEnd(s[i]) => (i = Len(s) /\ i > 1 /\ IsTerminal(s[i - 1]))
              /\ IsTerminal(s[i]) => \A j \in (i + 1)..Len(s) : IsEnd(s[j])
        /\ ProgressLabels(r) = emitted[r]

C4_Witness ==
    \E r \in Reqs :
        /\ Finished(r)
        /\ Len(stream[r]) = 4
        /\ IsEnd(stream[r][4])
        /\ IsTerminal(stream[r][3])
        /\ IsProgress(stream[r][2])

\* C5 (as claimed): when the page fetch and the browser audit both succeed,
\* the terminal event is a results event carrying the url, the category
\* scores, the SEO signals and the overall score.
C5_ResultsOnSuccess ==
    \A r \in Reqs :
        (Finished(r) /\ AllSucceeded(r)) =>
            /\ Len(Terminals(r)) = 1
            /\ IsResults(Terminals(r)[1])
            /\ Terminals(r)[1].results.url = site[r]
            /\ {"seoData", "seoScore"} \subseteq DOMAIN Terminals(r)[1].results

\* C6 (as claimed): when the fetch fails, the stream carries exactly one
\* progress event (the Fetching label), then one error event, then closes.
C6_OneProgressThenError ==
    \A r \in Reqs :
        (Finished(r) /\ outcome[r].fetch = "error") =>
            /\ Len(stream[r]) = 3
            /\ stream[r][1] = Progress("Fetching HTML...", r)
            /\ IsError(stream[r][2])
            /\ IsEnd(stream[r][3])

\* C6 (amended): when the fetch fails, the stream carries exactly two
\* progress events, the Fetching label and then the notice 'Failed to fetch
\* HTML.', followed by the one error event 'Audit failed.', then closes;
\* nothing else is ever written for that request.
C6_FetchFailureStream ==
    \A r \in Reqs :
        LET whole == <<Progress("Fetching HTML...", r),
                       Progress("Failed to fetch HTML.", r),
                       ErrorEvent("Audit failed.", r),
                       EndMark(r)>> IN
        outcome[r].fetch = "error" =>
            /\ IsPrefix(stream[r], whole)
            /\ Finished(r) => stream[r] = whole

C6_Witness ==
    \E r \in Reqs :
        /\ Finished(r)
        /\ outcome[r].fetch = "error"
        /\ Len(Progresses(r)) = 2
        /\ Len(Ends(r)) = 1

C8_FiveProgressThenResults ==
    \A r \in Reqs :
        (Finished(r) /\ AllSucceeded(r)) =>
            /\ ProgressLabels(r) = StageLabels
            /\ Len(stream[r]) = Len(StageLabels) + 2
            /\ IsResults(stream[r][Len(StageLabels) + 1])

View(r) == <<pc[r], status[r], body[r], headers[r], stream[r], websiteAudit[r],
             emitted[r], html[r], chrome[r], pending[r], settled[r], calls[r],
             outcome[r]>>

Untagged(s) == [i \in 1..Len(s) |-> [s[i] EXCEPT !.by = 0]]

\* C10: with requests interleaved at every suspension point, every event on
\* a request's stream was produced by that request's orchestrator, a step of
\* one request changes nothing of another, and two requests with the same
\* input and the same outcomes of their external calls have the same stream
\* and the same result.
C10_RequestsIsolated ==
    /\ [](\A r \in Reqs :
            /\ \A i \in 1..Len(stream[r]) : stream[r][i].by = r
            /\ ProgressLabels(r) = emitted[r])
    /\ [](\A r, q \in Reqs :
            (site[r] = site[q] /\ outcome[r] = outcome[q] /\ pc[r] = pc[q]) =>
                /\ Untagged(stream[r]) = Untagged(stream[q])
                /\ settled[r] = settled[q]
                /\ chrome[r] = chrome[q])
    /\ [][\A r, q \in Reqs :
            r # q => (View(r)' = View(r) \/ View(q)' = View(q))]_vars

C10_Witness ==
    \E r, q \in Reqs :
        /\ r # q
        /\ pc[r] = "kill"
        /\ pc[q] = "launch"
        /\ Len(stream[r]) = 2
        /\ Len(stream[q]) = 2

----------------------------------------------------------------------------
(***************************************************************************)
(* Methods of WebsiteAudit called directly.                                *)
(***************************************************************************)

\* Bounds of the inputs.
MaxH1 == 2
MaxImages == 2

\* The endpoint serves no request while a method is called directly.
NoRequest ==
    /\ site = [r \in Reqs |-> Undefined]
    /\ pc = [r \in Reqs |-> "start"]
    /\ status = [r \in Reqs |-> 0]
    /\ body = [r \in Reqs |-> [none |-> TRUE]]
    /\ headers = [r \in Reqs |-> {}]
    /\ stream = [r \in Reqs |-> <<>>]
    /\ websiteAudit = [r \in Reqs |-> FALSE]
    /\ emitted = [r \in Reqs |-> <<>>]
    /\ html = [r \in Reqs |-> Undefined]
    /\ chrome = [r \in Reqs |-> "none"]
    /\ pending = [r \in Reqs |-> NullObj]
    /\ settled = [r \in Reqs |-> [pending |-> TRUE]]
    /\ calls = [r \in Reqs |-> <<>>]
    /\ outcome = [r \in Reqs |-> NoOutcome]

\* Sequences over S of length at most n.
SeqUpTo(S, n) == UNION {[1..k -> S] : k \in 0..n}

Returned(v) == [value |-> v]
Thrown(e) == [throws |-> e]

----------------------------------------------------------------------------
(* Score Aggregator: calculateOnPageSEOScore, generateSEOScore *)

\* A category score is a number of hundredths, h standing for the double
\* nearest to h/100 (lighthouse rounds category scores to two decimals), or
\* null.
Scores == 0..100
NullScore == [scoreNull |-> TRUE]
HasScore(c) == "score" \in DOMAIN c

\* The fields of seoData that the checklist reads.
ChecklistInputs ==
    [title : {"", "T"},
     metaDescription : {"", "D"},
     h1Count : 0..MaxH1,
     canonicalLink : {"", "https://site.test/"},
     imageAltTags : SeqUpTo({Undefined, "", "alt"}, MaxImages)]

\* lighthouseResults: with a seo score, with a null seo score, without the
\* seo category.
LighthouseInputs ==
    {[categories |-> [seo |-> [score |-> h]]] : h \in Scores}
    \cup {[categories |-> [seo |-> NullScore]],
          [categories |-> [performance |-> [score |-> 100]]]}

\* `imageAltTags.every((alt) => alt)`
EveryAlt(alts) == \A i \in 1..Len(alts) : Truthy(alts[i])

\* Mutant: `h1Count >= 1` instead of `h1Count === 1`.
CalculateOnPageSEOScoreAnyH1(sd) ==
    (IF Truthy(sd.title) THEN 20 ELSE 0)
    + (IF Truthy(sd.metaDescription) THEN 20 ELSE 0)
    + (IF sd.h1Count >= 1 THEN 20 ELSE 0)
    + (IF Truthy(sd.canonicalLink) THEN 20 ELSE 0)
    + (IF EveryAlt(sd.imageAltTags) THEN 20 ELSE 0)

\* calculateOnPageSEOScore
CalculateOnPageSEOScore(sd) ==
    (IF Truthy(sd.title) THEN 20 ELSE 0)
    + (IF Truthy(sd.metaDescription) THEN 20 ELSE 0)
    + (IF sd.h1Count = 1 THEN 20 ELSE 0)
    + (IF Truthy(sd.canonicalLink) THEN 20 ELSE 0)
    + (IF EveryAlt(sd.imageAltTags) THEN 20 ELSE 0)

(***************************************************************************)
(* The arithmetic of generateSEOScore is on IEEE-754 doubles.  A double    *)
(* that is an integer n or its neighbour one ulp below or above is written *)
(* [n |-> n, off |-> -1, 0 or 1].                                           *)
(*                                                                         *)
(* `score * 100`: the product of the double nearest h/100 and 100, rounded *)
(* to nearest, is h for every h of 0..100 except 29, 57, 58 (one ulp       *)
(* below: 0.29 * 100 is 28.999999999999996) and 7, 14, 28, 55, 56 (one ulp *)
(* above).  null * 100 is 0.                                               *)
(***************************************************************************)
Times100(c) ==
    IF ~HasScore(c) THEN [n |-> 0, off |-> 0]
    ELSE [n |-> c.score,
          off |-> IF c.score \in {29, 57, 58} THEN -1
                  ELSE IF c.score \in {7, 14, 28, 55, 56} THEN 1 ELSE 0]

\* `x + k` for a checklist score k: adding 0 is exact; adding 20..100 to a
\* double one ulp from an integer below 64 lands on the integer (the sum's
\* ulp is larger and the tie goes to the even mantissa).
PlusScore(x, k) == IF k = 0 THEN x ELSE [n |-> x.n + k, off |-> 0]

\* Mutant: Math.floor instead of Math.round.
MathFloorOfHalf(x) ==
    IF x.n % 2 = 0
    THEN (IF x.off < 0 THEN x.n \div 2 - 1 ELSE x.n \div 2)
    ELSE (x.n - 1) \div 2

\* `Math.round(x / 2)`: halving is exact; Math.round gives the nearest
\* integer and rounds a tie up, so n/2 - ulp with n odd rounds down.
MathRoundOfHalf(x) ==
    IF x.n % 2 = 0 THEN x.n \div 2
    ELSE IF x.off < 0 THEN (x.n - 1) \div 2 ELSE (x.n + 1) \div 2

\* generateSEOScore (index.js): `lighthouseResults.categories.seo.score`
\* throws when the seo category is missing.
GenerateSEOScore(lh, sd) ==
    IF "seo" \notin DOMAIN lh.categories
    THEN Thrown("TypeError: Cannot read properties of undefined (reading 'score')")
    ELSE Returned(MathRoundOfHalf(
             PlusScore(Times100(lh.categories.seo), CalculateOnPageSEOScore(sd))))

\* generateSEOScore (TypeScript variant): `categories.seo?.score ?? 0`.
GenerateSEOScoreTS(lh, sd) ==
    LET seo == IF "seo" \in DOMAIN lh.categories THEN lh.categories.seo
               ELSE NullScore
    IN Returned(MathRoundOfHalf(
           PlusScore(Times100(seo), CalculateOnPageSEOScore(sd))))

InitScore ==
    /\ NoRequest
    /\ entry = "none"
    /\ at = "idle"
    /\ baseUrl = Undefined
    /\ doc = NullObj
    /\ lighthouseResults \in LighthouseInputs
    /\ seoData \in ChecklistInputs
    /\ local = NullObj
    /\ probes = <<>>
    /\ ret = [pending |-> TRUE]

\* A synchronous method is called and returns or throws.
Apply(name, result) ==
    /\ at = "idle"
    /\ entry' = name
    /\ ret' = result
    /\ at' = "returned"
    /\ UNCHANGED <<baseUrl, doc, lighthouseResults, seoData, local, probes>>
    /\ UNCHANGED endpoint

CallCalculateOnPageSEOScore ==
    Apply("calculateOnPageSEOScore", Returned(CalculateOnPageSEOScore(seoData)))

CallGenerateSEOScore ==
    Apply("generateSEOScore", GenerateSEOScore(lighthouseResults, seoData))

CallGenerateSEOScoreTS ==
    Apply("generateSEOScoreTS", GenerateSEOScoreTS(lighthouseResults, seoData))

NextScore ==
    \/ CallCalculateOnPageSEOScore
    \/ CallGenerateSEOScore
    \/ CallGenerateSEOScoreTS

ScoreSpec == InitScore /\ [][NextScore]_vars

----------------------------------------------------------------------------
(* Claims on the Score Aggregator *)

Called(name) == entry = name /\ at = "returned"

\* The conditions of the on-page checklist, as the specification words them.
ChecklistSatisfied(sd) ==
    {c \in {"title", "metaDescription", "h1", "canonical", "alt"} :
        \/ c = "title" /\ sd.title # ""
        \/ c = "metaDescription" /\ sd.metaDescription # ""
        \/ c = "h1" /\ sd.h1Count = 1
        \/ c = "canonical" /\ sd.canonicalLink # ""
        \/ c = "alt" /\ \A i \in 1..Len(sd.imageAltTags) :
                           sd.imageAltTags[i] \notin {Undefined, ""}}

\* C11 (as claimed): for a browser SEO score of h hundredths, generateSEOScore
\* returns (h + onPageScore) / 2 rounded to the nearest integer, halves up;
\* the result is an integer of 0..100, and 100 for h = 100 with a checklist
\* score of 100.
C11_RoundedAverage ==
    (/\ Called("generateSEOScore")
     /\ "seo" \in DOMAIN lighthouseResults.categories
     /\ HasScore(lighthouseResults.categories.seo)) =>
        LET h == lighthouseResults.categories.seo.score
            onPage == 20 * Cardinality(ChecklistSatisfied(seoData)) IN
        /\ "value" \in DOMAIN ret
        /\ ret.value \in 0..100
        /\ 2 * ret.value - (h + onPage) \in {0, 1}
        /\ (h = 100 /\ onPage = 100) => ret.value = 100

\* C12 (as claimed): when the audit result has no seo category,
\* generateSEOScore does not fail and returns the checklist score halved and
\* rounded.
C12_AbsentSeoCountsZero ==
    (/\ Called("generateSEOScore")
     /\ "seo" \notin DOMAIN lighthouseResults.categories) =>
        LET onPage == 20 * Cardinality(ChecklistSatisfied(seoData)) IN
        /\ "value" \in DOMAIN ret
        /\ 2 * ret.value - onPage \in {0, 1}

\* C13: the on-page checklist score is 20 times the number of satisfied
\* conditions among: non-empty title, non-empty meta description, exactly
\* one h1, non-empty canonical link, every image alt entry present and
\* non-empty; so it is 100 when all five hold, 0 when none holds, and always
\* a multiple of 20 up to 100.
C13_ChecklistScore ==
    Called("calculateOnPageSEOScore") =>
        LET n == Cardinality(ChecklistSatisfied(seoData)) IN
        /\ ret.value = 20 * n
        /\ ret.value \in {0, 20, 40, 60, 80, 100}
        /\ n = 5 => ret.value = 100
        /\ n = 0 => ret.value = 0

C13_Witness ==
    /\ Called("calculateOnPageSEOScore")
    /\ seoData.h1Count = 2
    /\ Len(seoData.imageAltTags) = 2
    /\ seoData.imageAltTags[2] = Undefined
    /\ ret.value = 40

----------------------------------------------------------------------------
(* The page: what cheerio, JSDOM and Readability find in `html` *)

\* Bounds of the page.
MaxText == 4
MaxChars == 4
MaxScripts == 2
MaxItemscope == 1

WhiteSpace == {" "}
\* The body text, as a sequence of atoms: a whitespace character or a word.
TextAtoms == {" ", "example", "Example", "other"}
\* The article text, character by character.
Chars == {"a", "b", " ", "."}

PlainDoc ==
    [title |-> "T",            \* text of <title>
     metaDescription |-> "D",  \* content of <meta name="description">, or undefined
     h1 |-> 1,                 \* number of <h1>
     h2 |-> 0,                 \* number of <h2>
     imgs |-> <<>>,            \* per <img>, its alt attribute or undefined
     canonical |-> "https://site.test/", \* href of <link rel="canonical">, or undefined
     ldJson |-> <<>>,          \* per ld+json script block, its content
     itemscope |-> 0,          \* number of elements with an itemscope attribute
     hrefs |-> <<>>,           \* per <a>, its href attribute or undefined
     body |-> <<"other">>,     \* text of <body>
     readerable |-> FALSE,     \* isProbablyReaderable(document)
     article |-> NullObj]      \* new Readability(document).parse()

TextDocs == {[PlainDoc EXCEPT !.body = t] : t \in SeqUpTo(TextAtoms, MaxText)}

ArticleDocs ==
    {[PlainDoc EXCEPT !.readerable = b, !.article = a] :
        b \in BOOLEAN,
        a \in {NullObj} \cup {[textContent |-> t] : t \in SeqUpTo(Chars, MaxChars)}}

ScriptDocs ==
    {[PlainDoc EXCEPT !.ldJson = j, !.itemscope = n] :
        j \in SeqUpTo({"", "{}"}, MaxScripts), n \in 0..MaxItemscope}

----------------------------------------------------------------------------
(* String helpers *)

\* `t.split(re)` for a pattern re matching the maximal runs of Sep: the
\* pieces between the runs, empty pieces at the ends included.
RECURSIVE SplitFrom(_, _, _, _)
SplitFrom(t, Sep, i, cur) ==
    IF i > Len(t) THEN <<cur>>
    ELSE IF t[i] \in Sep
         THEN IF i > 1 /\ t[i - 1] \in Sep
              THEN SplitFrom(t, Sep, i + 1, cur)
              ELSE <<cur>> \o SplitFrom(t, Sep, i + 1, <<>>)
         ELSE SplitFrom(t, Sep, i + 1, Append(cur, t[i]))

Split(t, Sep) == SplitFrom(t, Sep, 1, <<>>)

ToLowerCase(w) == IF w = "Example" THEN "example" ELSE w

\* The string a piece of atoms spells, in lower case.
RECURSIVE LowerWord(_)
LowerWord(piece) ==
    IF piece = <<>> THEN ""
    ELSE ToLowerCase(Head(piece)) \o LowerWord(Tail(piece))

\* Two decimal digits.
Pad2(n) == IF n < 10 THEN "0" \o ToString(n) ELSE ToString(n)

\* n / d rounded to the nearest integer, halves away from zero (d > 0).
RoundDiv(n, d) ==
    IF n >= 0 THEN (2 * n + d) \div (2 * d) ELSE 0 - ((2 * (0 - n) + d) \div (2 * d))

\* `(n / d).toFixed(2)`: NaN for 0/0, else the quotient in hundredths.
ToFixed2(n, d) ==
    IF d = 0 THEN "NaN"
    ELSE LET q == RoundDiv(100 * n, d)
             a == IF q < 0 THEN 0 - q ELSE q IN
         (IF q < 0 THEN "-" ELSE "") \o ToString(a \div 100) \o "." \o Pad2(a % 100)

----------------------------------------------------------------------------
(* calculateKeywordDensity, calculateReadability, checkStructuredData *)

\* The value a method returns, with its JS type.
JSNumber(n) == [number |-> n]
JSString(str) == [string |-> str]
JSBoolean(b) == [boolean |-> b]

TargetKeyword == "example"

\* `text.split(/\s+/).filter((word) => word.length > 0)`
Words(text) == SelectSeq(Split(text, WhiteSpace), LAMBDA w : Len(w) > 0)

KeywordCount(text) ==
    Len(SelectSeq(Words(text), LAMBDA w : LowerWord(w) = TargetKeyword))

\* calculateKeywordDensity: ((keywordCount / words.length) * 100).toFixed(2)
CalculateKeywordDensity(d) ==
    ToFixed2(100 * KeywordCount(d.body), Len(Words(d.body)))

\* The Flesch formula on an article text:
\* (206.835 - 1.015 * (words / sentences) - 84.6 * (syllables / words)).toFixed(2)
Flesch(text) ==
    LET words == Len(Split(text, WhiteSpace))
        sentences == Len(Split(text, {".", "!", "?"}))
        syllables == Len(SelectSeq(text, LAMBDA c : c \in {"a", "e", "i", "o", "u", "y"}))
    IN ToFixed2(206835 * sentences * words - 1015 * words * words
                    - 84600 * syllables * sentences,
                1000 * sentences * words)

\* calculateReadability (index.js)
CalculateReadability(d) ==
    IF ~d.readerable THEN Returned(JSNumber(0))
    ELSE IF ~IsObject(d.article)
         THEN Thrown("TypeError: Cannot read properties of null (reading 'textContent')")
         ELSE Returned(JSString(Flesch(d.article.textContent)))

\* calculateReadability (TypeScript variant): no isProbablyReaderable.
CalculateReadabilityTS(d) ==
    IF ~IsObject(d.article) THEN Returned(JSString(""))
    ELSE Returned(JSString(Flesch(d.article.textContent)))

\* checkStructuredData: `.html()` is the content of the first matched block,
\* null when there is none.
CheckStructuredData(d) ==
    LET jsonLd == IF Len(d.ldJson) = 0 THEN Null ELSE d.ldJson[1]
        microdata == d.itemscope > 0
    IN Truthy(jsonLd) \/ microdata

InitPure ==
    /\ NoRequest
    /\ entry = "none"
    /\ at = "idle"
    /\ baseUrl = Undefined
    /\ doc \in TextDocs \cup ArticleDocs \cup ScriptDocs
    /\ lighthouseResults = NullObj
    /\ seoData = NullObj
    /\ local = NullObj
    /\ probes = <<>>
    /\ ret = [pending |-> TRUE]

CallCalculateKeywordDensity ==
    Apply("calculateKeywordDensity", Returned(JSString(CalculateKeywordDensity(doc))))

CallCalculateReadability ==
    Apply("calculateReadability", CalculateReadability(doc))

CallCalculateReadabilityTS ==
    Apply("calculateReadabilityTS", CalculateReadabilityTS(doc))

CallCheckStructuredData ==
    Apply("checkStructuredData", Returned(JSBoolean(CheckStructuredData(doc))))

NextPure ==
    \/ CallCalculateKeywordDensity
    \/ CallCalculateReadability
    \/ CallCalculateReadabilityTS
    \/ CallCheckStructuredData

PureSpec == InitPure /\ [][NextPure]_vars

----------------------------------------------------------------------------
(* Claims on the text and structured-data checks *)

\* The non-empty whitespace-delimited tokens of a text, and those equal to
\* the keyword whatever their case.
Tokens(text) ==
    {i \in 1..Len(text) :
        text[i] \notin WhiteSpace /\ (i = 1 \/ text[i - 1] \in WhiteSpace)}
KeywordTokens(text) ==
    {i \in Tokens(text) :
        /\ text[i] \in {"example", "Example"}
        /\ (i = Len(text) \/ text[i + 1] \in WhiteSpace)}

\* A decimal string with two fractional digits.
IsDecimal2(str) ==
    \E q \in -100000..100000 :
        str = (IF q < 0 THEN "-" ELSE "")
              \o ToString((IF q < 0 THEN 0 - q ELSE q) \div 100) \o "."
              \o Pad2((IF q < 0 THEN 0 - q ELSE q) % 100)

\* C17 (as claimed): keywordDensity is always a defined decimal string with
\* two fractional digits, the share of keyword tokens among the tokens in
\* percent, and never "NaN", also for a body without tokens.
C17_DensityDefined ==
    Called("calculateKeywordDensity") =>
        /\ ret.value # JSString("NaN")
        /\ Tokens(doc.body) # {} =>
              ret.value = JSString(ToFixed2(100 * Cardinality(KeywordTokens(doc.body)),
                                            Cardinality(Tokens(doc.body))))

\* C18 (as claimed): the readability signal is empty when the page is judged
\* not readable or yields no article, and otherwise a numeric decimal string
\* with two fractional digits; calculateReadability never raises.
C18_ReadabilityEmptyOrNumeric ==
    Called("calculateReadability") =>
        /\ "value" \in DOMAIN ret
        /\ (~doc.readerable \/ ~IsObject(doc.article)) => ret.value = JSString("")
        /\ (doc.readerable /\ IsObject(doc.article)) =>
              ("string" \in DOMAIN ret.value /\ IsDecimal2(ret.value.string))

\* C19 (as claimed): checkStructuredData is true iff some ld+json block is
\* non-empty or some element has the itemscope attribute.
C19_StructuredDataIff ==
    Called("checkStructuredData") =>
        (ret.value = JSBoolean(\/ \E i \in 1..Len(doc.ldJson) : doc.ldJson[i] # ""
                               \/ doc.itemscope > 0))

----------------------------------------------------------------------------
(* analyzeOnPageSEO and its probes *)

MaxLinks == 2

\* What a GET of a probe can do: respond with a status, or fail to connect.
ProbeOutcomes == {"200", "204", "404", "ECONNREFUSED"}

\* axios settles a GET by resolving only for a 2xx status (its default
\* validateStatus); any other status and any network error reject.
AxiosResolves(o) == o \in {"200", "204"}

\* Mutant: every resolved GET counts as present.
StatusIs200OrAny2xx(o) == AxiosResolves(o)

\* `response.status === 200`
StatusIs200(o) == o = "200"

\* checkRobotsTxt, checkSitemap: try { return response.status === 200 }
\* catch { return false }
CheckPresent(o) == IF AxiosResolves(o) THEN StatusIs200(o) ELSE FALSE

\* findBrokenLinks, per link: try { if (response.status !== 200) brokenLinks++ }
\* catch { brokenLinks++ }
LinkIsBroken(o) == IF AxiosResolves(o) THEN ~StatusIs200(o) ELSE TRUE

\* The href attributes of the page's anchors: none, empty, a fragment, a
\* path, or one that no base URL resolves.
Hrefs == {Undefined, "", "#top", "/a", "http://"}

StartsWithHash(link) == link = "#top"

\* `new URL(link, baseUrl)` throws a TypeError for an href it cannot parse.
Resolvable(link) == link # "http://"
AbsoluteUrl(link, base) == base \o link

\* cheerio's .map() leaves out the elements whose callback returns
\* undefined or null; .get() gives the rest as an array.
MapGet(attrs) == SelectSeq(attrs, LAMBDA a : a \notin {Undefined, Null})

\* findBrokenLinks: `links`
ExtractLinks(d) ==
    SelectSeq(MapGet(d.hrefs), LAMBDA link : Truthy(link) /\ ~StartsWithHash(link))

Trim(str) == IF str = " " THEN "" ELSE str
OrEmpty(v) == IF Truthy(v) THEN v ELSE ""

\* analyzeOnPageSEO: the seoData object, given the results of the awaited
\* checks and of calculateReadability.
SeoDataOf(d, loc, count, readability) ==
    [title |-> Trim(d.title),
     metaDescription |-> OrEmpty(d.metaDescription),
     h1Count |-> d.h1,
     h2Count |-> d.h2,
     imageAltTags |-> MapGet(d.imgs),
     canonicalLink |-> OrEmpty(d.canonical),
     robotsTxt |-> loc.robotsTxt,
     sitemap |-> loc.sitemap,
     structuredData |-> CheckStructuredData(d),
     brokenLinks |-> count,
     keywordDensity |-> CalculateKeywordDensity(d),
     readability |-> readability]

\* analyzeOnPageSEO once findBrokenLinks has returned `count`: the remaining
\* properties are synchronous; an exception of one of them leaves the method.
AnalysisTail(d, loc, count) ==
    LET r == CalculateReadability(d) IN
    IF "throws" \in DOMAIN r THEN r ELSE Returned(SeoDataOf(d, loc, count, r.value))

\* The locals of a call in progress.
Locals(robots, sitemap, links, i, count, get) ==
    [robotsTxt |-> robots, sitemap |-> sitemap, links |-> links, i |-> i,
     brokenLinks |-> count, get |-> get]

\* The pages analysed.
LinkDocs == {[PlainDoc EXCEPT !.hrefs = h] : h \in SeqUpTo(Hrefs, MaxLinks)}
HeadDocs ==
    {[PlainDoc EXCEPT !.title = t, !.metaDescription = m, !.imgs = g] :
        t \in {" ", "T"}, m \in {Undefined, "D"}, g \in {<<>>, <<Undefined, "alt">>}}
ReadableDoc ==
    [PlainDoc EXCEPT !.readerable = TRUE, !.article = [textContent |-> <<"a", " ", "b", ".">>]]
UnparsedDoc == [PlainDoc EXCEPT !.readerable = TRUE]
EmptyBodyDoc == [PlainDoc EXCEPT !.body = <<>>]
AnalyzeDocs == LinkDocs \cup HeadDocs \cup {ReadableDoc, UnparsedDoc, EmptyBodyDoc}

InitAnalyze ==
    /\ NoRequest
    /\ entry = "none"
    /\ at = "idle"
    /\ baseUrl = SiteURL
    /\ doc \in AnalyzeDocs
    /\ lighthouseResults = NullObj
    /\ seoData = NullObj
    /\ local = NullObj
    /\ probes = <<>>
    /\ ret = [pending |-> TRUE]

\* `result.lhr` as lighthouse gives it: one object per category, holding
\* its score.
CategoryObjects(lhr) ==
    [categories |-> [c \in DOMAIN lhr.categories |-> [score |-> lhr.categories[c]]]]

\* auditSite once analyzeOnPageSEO has settled with `analysis`: its exception
\* propagates; otherwise the score is computed and the result object built.
\* Only seoScore is a property of that object.
AuditSiteReturn(lh, analysis) ==
    IF "throws" \in DOMAIN analysis THEN analysis
    ELSE LET seoScore == GenerateSEOScore(lh, analysis.value) IN
         IF "throws" \in DOMAIN seoScore THEN seoScore
         ELSE Returned([seoScore |-> seoScore.value])

\* The method called settles with `result`.
Settle(result) ==
    /\ ret' = result
    /\ at' = "returned"

\* findBrokenLinks from its i-th link on, `count` broken links so far: the
\* link is resolved and its GET awaited; an unresolvable link throws outside
\* the try; after the last link the count is returned, to the caller of
\* findBrokenLinks or into the seoData of analyzeOnPageSEO.
ProbeLinksFrom(e, loc, i, count) ==
    IF i > Len(loc.links)
    THEN /\ local' = [loc EXCEPT !.i = i, !.brokenLinks = count, !.get = ""]
         /\ Settle(CASE e = "findBrokenLinks" -> Returned(JSNumber(count))
                     [] e = "auditSite" ->
                          AuditSiteReturn(lighthouseResults, AnalysisTail(doc, loc, count))
                     [] OTHER -> AnalysisTail(doc, loc, count))
    ELSE IF ~Resolvable(loc.links[i])
    THEN /\ local' = [loc EXCEPT !.i = i, !.brokenLinks = count, !.get = ""]
         /\ Settle(Thrown("TypeError: Invalid URL"))
    ELSE /\ local' = [loc EXCEPT !.i = i, !.brokenLinks = count,
                                 !.get = AbsoluteUrl(loc.links[i], baseUrl)]
         /\ at' = "link"
         /\ UNCHANGED ret

\* analyzeOnPageSEO is called: the object literal is evaluated up to its
\* first await, the GET of robots.txt.
CallAnalyzeOnPageSEO ==
    /\ at = "idle"
    /\ entry' = "analyzeOnPageSEO"
    /\ local' = Locals(FALSE, FALSE, <<>>, 0, 0, baseUrl \o "/robots.txt")
    /\ at' = "robots"
    /\ UNCHANGED <<baseUrl, doc, lighthouseResults, seoData, probes, ret>>
    /\ UNCHANGED endpoint

\* The GET of robots.txt settles; checkSitemap issues its GET.
RobotsTxtReturns ==
    /\ at = "robots"
    /\ \E o \in ProbeOutcomes :
        /\ probes' = Append(probes, [url |-> local.get, outcome |-> o])
        /\ local' = [local EXCEPT !.robotsTxt = CheckPresent(o),
                                  !.get = baseUrl \o "/sitemap.xml"]
    /\ at' = "sitemap"
    /\ UNCHANGED <<entry, baseUrl, doc, lighthouseResults, seoData, ret>>
    /\ UNCHANGED endpoint

\* The GET of sitemap.xml settles; checkStructuredData runs and
\* findBrokenLinks starts.
SitemapReturns ==
    /\ at = "sitemap"
    /\ \E o \in ProbeOutcomes :
        /\ probes' = Append(probes, [url |-> local.get, outcome |-> o])
        /\ ProbeLinksFrom(entry,
                          [local EXCEPT !.sitemap = CheckPresent(o),
                                        !.links = ExtractLinks(doc)],
                          1, 0)
    /\ UNCHANGED <<entry, baseUrl, doc, lighthouseResults, seoData>>
    /\ UNCHANGED endpoint

\* findBrokenLinks is called directly.
CallFindBrokenLinks ==
    /\ at = "idle"
    /\ entry' = "findBrokenLinks"
    /\ ProbeLinksFrom("findBrokenLinks",
                      Locals(FALSE, FALSE, ExtractLinks(doc), 0, 0, ""), 1, 0)
    /\ UNCHANGED <<baseUrl, doc, lighthouseResults, seoData, probes>>
    /\ UNCHANGED endpoint

\* The GET of a link settles; the loop goes on with the next link.
LinkReturns ==
    /\ at = "link"
    /\ \E o \in ProbeOutcomes :
        /\ probes' = Append(probes, [url |-> local.get, outcome |-> o])
        /\ ProbeLinksFrom(entry, local, local.i + 1,
                          local.brokenLinks + (IF LinkIsBroken(o) THEN 1 ELSE 0))
    /\ UNCHANGED <<entry, baseUrl, doc, lighthouseResults, seoData>>
    /\ UNCHANGED endpoint

NextAnalyze ==
    \/ CallAnalyzeOnPageSEO
    \/ RobotsTxtReturns
    \/ SitemapReturns
    \/ CallFindBrokenLinks
    \/ LinkReturns

AnalyzeSpec == InitAnalyze /\ [][NextAnalyze]_vars

----------------------------------------------------------------------------
(* Claims on analyzeOnPageSEO and its probes *)

\* The fields of a complete seoData record.
SeoDataFields ==
    {"title", "metaDescription", "h1Count", "h2Count", "imageAltTags",
     "canonicalLink", "robotsTxt", "sitemap", "structuredData", "brokenLinks",
     "keywordDensity", "readability"}

\* A status of the 2xx class.
HTTPSuccess(o) == o \in {"200", "204"}

\* The anchors of the page that have an href, and one that does not start
\* with `#`.
NonFragmentLinks(d) ==
    {i \in 1..Len(d.hrefs) : Truthy(d.hrefs[i]) /\ ~StartsWithHash(d.hrefs[i])}

\* C14 (as claimed): analyzeOnPageSEO never fails as a unit: whatever the
\* probes, the link resolution and the text checks do, the call returns a
\* complete seoData record and raises nothing.
C14_AnalysisNeverFails ==
    Called("analyzeOnPageSEO") =>
        /\ "value" \in DOMAIN ret
        /\ DOMAIN ret.value = SeoDataFields

\* C15 (as claimed): findBrokenLinks probes every anchor occurrence whose
\* href does not start with `#`, once per occurrence, and returns the number
\* of those whose GET failed or returned a non-success status.
C15_BrokenLinkCount ==
    Called("findBrokenLinks") =>
        /\ "value" \in DOMAIN ret
        /\ Len(probes) = Cardinality(NonFragmentLinks(doc))
        /\ ret.value = JSNumber(Cardinality({k \in 1..Len(probes) :
                                                ~HTTPSuccess(probes[k].outcome)}))

\* C16 (as claimed): robotsTxt is true iff the GET of robots.txt returned
\* HTTP success, and sitemap is true iff the GET of sitemap.xml did.
C16_PresentIffSuccess ==
    entry = "analyzeOnPageSEO" =>
        /\ Len(probes) >= 1 => local.robotsTxt = HTTPSuccess(probes[1].outcome)
        /\ Len(probes) >= 2 => local.sitemap = HTTPSuccess(probes[2].outcome)

\* C16 (amended): robotsTxt is true iff the GET of {baseUrl}/robots.txt
\* returned status 200, and sitemap is true iff the GET of
\* {baseUrl}/sitemap.xml returned status 200; a network error or any other
\* status gives false and is not propagated: after the robots probe the call
\* goes on to the sitemap probe, and when nothing else throws it returns a
\* record carrying both results, each depending on its own probe only.
C16_PresentIffStatus200 ==
    entry = "analyzeOnPageSEO" =>
        /\ Len(probes) >= 1 =>
              /\ probes[1].url = baseUrl \o "/robots.txt"
              /\ local.robotsTxt = (probes[1].outcome = "200")
        /\ Len(probes) = 1 => at = "sitemap"
        /\ Len(probes) >= 2 =>
              /\ probes[2].url = baseUrl \o "/sitemap.xml"
              /\ local.sitemap = (probes[2].outcome = "200")
        /\ (Len(probes) = 2 /\ ExtractLinks(doc) = <<>> /\ ~doc.readerable) =>
              /\ Called("analyzeOnPageSEO")
              /\ "value" \in DOMAIN ret
              /\ ret.value.robotsTxt = (probes[1].outcome = "200")
              /\ ret.value.sitemap = (probes[2].outcome = "200")

\* A call returned after robots.txt answered 204 and sitemap.xml answered 200.
C16_Witness ==
    /\ Called("analyzeOnPageSEO")
    /\ "value" \in DOMAIN ret
    /\ Len(probes) >= 2
    /\ probes[1].outcome = "204"
    /\ probes[2].outcome = "200"
    /\ ~ret.value.robotsTxt
    /\ ret.value.sitemap

----------------------------------------------------------------------------
(* auditSite *)

\* The locals of auditSite and of the analysis it runs.
AuditLocals(h, c, get) ==
    [html |-> h, chrome |-> c, robotsTxt |-> FALSE, sitemap |-> FALSE,
     links |-> <<>>, i |-> 0, brokenLinks |-> 0, get |-> get]

\* The pages audited.
AuditDocs ==
    {PlainDoc,
     [PlainDoc EXCEPT !.hrefs = <<"/a">>],
     [PlainDoc EXCEPT !.hrefs = <<"http://">>],
     [PlainDoc EXCEPT !.title = " ", !.h1 = 0]}

InitAuditSite ==
    /\ NoRequest
    /\ entry = "none"
    /\ at = "idle"
    /\ baseUrl = SiteURL
    /\ doc \in AuditDocs
    /\ lighthouseResults = NullObj
    /\ seoData = NullObj
    /\ local = NullObj
    /\ probes = <<>>
    /\ ret = [pending |-> TRUE]

\* auditSite(url) is called: fetchHTML issues its GET.
CallAuditSite ==
    /\ at = "idle"
    /\ entry' = "auditSite"
    /\ local' = AuditLocals(Undefined, "none", baseUrl)
    /\ at' = "fetch"
    /\ UNCHANGED <<baseUrl, doc, lighthouseResults, seoData, probes, ret>>
    /\ UNCHANGED endpoint

\* fetchHTML(url) is called directly: it issues its GET.
CallFetchHTML ==
    /\ at = "idle"
    /\ entry' = "fetchHTML"
    /\ local' = AuditLocals(Undefined, "none", baseUrl)
    /\ at' = "fetch"
    /\ UNCHANGED <<baseUrl, doc, lighthouseResults, seoData, probes, ret>>
    /\ UNCHANGED endpoint

\* runLighthouseAudit(url) is called directly: it launches the browser.
CallRunLighthouseAudit ==
    /\ at = "idle"
    /\ entry' = "runLighthouseAudit"
    /\ local' = AuditLocals(Undefined, "none", "")
    /\ at' = "launch"
    /\ UNCHANGED <<baseUrl, doc, lighthouseResults, seoData, probes, ret>>
    /\ UNCHANGED endpoint

\* A string, null or undefined as a returned value.
JSValue(v) ==
    CASE v = Null -> NullObj
      [] v = Undefined -> [undefined |-> TRUE]
      [] OTHER -> JSString(v)

\* fetchHTML settles and returns to its caller.  In auditSite, null or an
\* empty body ends the call with null; otherwise runLighthouseAudit launches
\* the browser.
DirectFetchReturns ==
    /\ at = "fetch"
    /\ \E o \in FetchOutcomes :
        /\ probes' = Append(probes, [url |-> local.get, outcome |-> o])
        /\ local' = [local EXCEPT !.html = FetchHTML(o), !.get = ""]
        /\ IF entry = "fetchHTML"
           THEN Settle(Returned(JSValue(FetchHTML(o))))
           ELSE IF Truthy(FetchHTML(o))
           THEN at' = "launch" /\ UNCHANGED ret
           ELSE Settle(Returned(NullObj))
    /\ UNCHANGED <<entry, baseUrl, doc, lighthouseResults, seoData>>
    /\ UNCHANGED endpoint

\* chromeLauncher.launch settles: a failure is caught, no browser exists for
\* finally to kill, and auditSite returns null.
DirectLaunchReturns ==
    /\ at = "launch"
    /\ \E o \in LaunchOutcomes :
        IF o = "ok"
        THEN /\ local' = [local EXCEPT !.chrome = "alive"]
             /\ at' = "lighthouse"
             /\ UNCHANGED ret
        ELSE /\ UNCHANGED local
             /\ Settle(Returned(NullObj))
    /\ UNCHANGED <<entry, baseUrl, doc, lighthouseResults, seoData, probes>>
    /\ UNCHANGED endpoint

\* runLighthouseAudit returns lh with locals loc: to its caller when it was
\* called directly; in auditSite, null ends the call with null, and a result
\* starts analyzeOnPageSEO, up to the GET of robots.txt.
AuditReturns(lh, loc) ==
    IF entry = "runLighthouseAudit"
    THEN local' = loc /\ Settle(Returned(lh))
    ELSE IF ~IsObject(lh)
    THEN local' = loc /\ Settle(Returned(NullObj))
    ELSE /\ local' = [loc EXCEPT !.get = baseUrl \o "/robots.txt"]
         /\ at' = "robots"
         /\ UNCHANGED ret

\* lighthouse settles: finally awaits chrome.kill().
DirectLighthouseReturns ==
    /\ at = "lighthouse"
    /\ \E o \in LighthouseOutcomes :
        /\ lighthouseResults' = IF IsObject(AuditValue(o))
                                THEN CategoryObjects(AuditValue(o)) ELSE NullObj
        /\ IF FinallyKills(local.chrome, o # "ok")
           THEN at' = "kill" /\ UNCHANGED <<ret, local>>
           ELSE AuditReturns(lighthouseResults', local)
    /\ UNCHANGED <<entry, baseUrl, doc, seoData, probes>>
    /\ UNCHANGED endpoint

\* chrome.kill() settles: its rejection leaves the finally block, and with
\* it runLighthouseAudit and auditSite, as an exception; otherwise
\* runLighthouseAudit returns the pending value.
DirectKillReturns ==
    /\ at = "kill"
    /\ \E o \in KillOutcomes :
        IF o = "throws"
        THEN /\ local' = [local EXCEPT !.chrome = "gone"]
             /\ Settle(Thrown(KillError.rejected))
        ELSE AuditReturns(lighthouseResults, [local EXCEPT !.chrome = "gone"])
    /\ UNCHANGED <<entry, baseUrl, doc, lighthouseResults, seoData, probes>>
    /\ UNCHANGED endpoint

NextAuditSite ==
    \/ CallAuditSite
    \/ CallFetchHTML
    \/ CallRunLighthouseAudit
    \/ DirectFetchReturns
    \/ DirectLaunchReturns
    \/ DirectLighthouseReturns
    \/ DirectKillReturns
    \/ RobotsTxtReturns
    \/ SitemapReturns
    \/ LinkReturns

AuditSiteSpec == InitAuditSite /\ [][NextAuditSite]_vars

\* C20 (as claimed): when auditSite returns, it returns null if the fetch or
\* the browser audit failed, and otherwise a record holding the url, the
\* four category scores (lighthouseResults), seoData and the numeric
\* seoScore.
C20_AuditSiteRecord ==
    (Called("auditSite") /\ "value" \in DOMAIN ret) =>
        IF ~Truthy(local.html) \/ ~IsObject(lighthouseResults)
        THEN ret.value = NullObj
        ELSE /\ DOMAIN ret.value = {"url", "lighthouseResults", "seoData", "seoScore"}
             /\ ret.value.url = baseUrl
             /\ DOMAIN ret.value.lighthouseResults = OnlyCategories
             /\ ret.value.seoScore \in 0..100

----------------------------------------------------------------------------
(* Claims on the stages of a request *)

\* The external calls of request r with operation op.
CallsOf(r, op) == {i \in 1..Len(calls[r]) : calls[r][i].op = op}

\* The stage whose work an external call is, by the label that announces it.
StageOfCall(op) ==
    CASE op = "GET" -> "Fetching HTML..."
      [] op \in {"launch", "lighthouse", "kill"} -> "Running Lighthouse audit..."

\* C21: every piece of a stage's work is issued when the stage's progress
\* event is the last one written to the request's stream: the Fetching event
\* precedes the GET of the target URL, and the audit event precedes the
\* browser launch, the audit run and the teardown and follows the settled
\* GET.  The only work a request ever issues is the GET of its target and
\* the browser audit: no probe and no score computation happen without their
\* events, since none happens at all.
C21_ProgressBeforeWork ==
    \A r \in Reqs :
        \A i \in 1..Len(calls[r]) :
            LET c == calls[r][i] IN
            /\ c.op \in {"GET", "launch", "lighthouse", "kill"}
            /\ c.seen \in 1..Len(Progresses(r))
            /\ ProgressLabels(r)[c.seen] = StageOfCall(c.op)
            /\ c.seen = (IF c.op = "GET" THEN 1 ELSE 2)
            /\ c.op = "GET" => c.arg = site[r]
            /\ c.op # "GET" => outcome[r].fetch = "ok"

\* A request has launched the browser after its two progress events.
C21_Witness ==
    \E r \in Reqs :
        /\ CallsOf(r, "GET") # {}
        /\ CallsOf(r, "launch") # {}
        /\ Len(Progresses(r)) = 2


\* The order of a request's external calls.
CallRank(op) ==
    CASE op = "GET" -> 1 [] op = "launch" -> 2 [] op = "lighthouse" -> 3 [] op = "kill" -> 4

\* The GET of the request's target failed.
FetchFailed(r) == outcome[r].fetch = "error"

\* C22: a request is terminal on first failure and never moves backwards.
\* After a failed fetch its only external call is the GET of the target: no
\* browser is launched and no probe is issued.  After a failed browser audit
\* no further GET (robots, sitemap, link) is issued, no score is announced
\* and no results are sent.  Its external calls are strictly ordered GET,
\* launch, audit run, teardown, each at most once, and no stage label is
\* written twice.
C22_TerminalOnFirstFailure ==
    \A r \in Reqs :
        /\ FetchFailed(r) =>
              /\ Len(calls[r]) = 1
              /\ calls[r][1].op = "GET"
              /\ chrome[r] = "none"
        /\ AuditFailed(r) =>
              /\ Cardinality(CallsOf(r, "GET")) = 1
              /\ \A i \in 1..Len(emitted[r]) :
                    emitted[r][i] \notin {"Analyzing on-page SEO...",
                                          "Calculating SEO score...", "Audit complete."}
              /\ \A i \in 1..Len(stream[r]) : ~IsResults(stream[r][i])
        /\ \A i, j \in 1..Len(calls[r]) :
              i < j => CallRank(calls[r][i].op) < CallRank(calls[r][j].op)
        /\ \A i, j \in 1..Len(emitted[r]) :
              (i # j /\ emitted[r][i] = emitted[r][j]) =>
                  emitted[r][i] \notin {StageLabels[k] : k \in 1..Len(StageLabels)}

\* One request finished after its fetch failed, another after its browser
\* audit failed.
C22_Witness ==
    \E r1, r2 \in Reqs :
        /\ Finished(r1) /\ FetchFailed(r1)
        /\ Finished(r2) /\ AuditFailed(r2) /\ CallsOf(r2, "launch") # {}


\* C23: a request launches at most one browser, so it owns at most one live
\* session, and invokes the audit tool at most once: exactly once when its
\* fetch succeeded and its browser launched, never otherwise, on the
\* request's target and for the four categories performance, seo,
\* accessibility and best-practices.
C23_OneSessionOneAudit ==
    \A r \in Reqs :
        /\ Cardinality(CallsOf(r, "launch")) <= 1
        /\ Cardinality(CallsOf(r, "lighthouse")) <= 1
        /\ chrome[r] = "alive" =>
              /\ Cardinality(CallsOf(r, "launch")) = 1
              /\ outcome[r].launch = "ok"
              /\ outcome[r].kill = "-"
        /\ (outcome[r].fetch = "ok" /\ outcome[r].launch = "ok") <=>
              Cardinality(CallsOf(r, "lighthouse")) = 1
        /\ \A i \in CallsOf(r, "lighthouse") :
              /\ calls[r][i].arg = site[r]
              /\ calls[r][i].options.onlyCategories =
                    {"performance", "seo", "accessibility", "best-practices"}

\* A request whose browser is alive while the audit runs.
C23_Witness ==
    \E r \in Reqs :
        /\ chrome[r] = "alive"
        /\ CallsOf(r, "lighthouse") # {}
        /\ outcome[r].lighthouse = "-"


----------------------------------------------------------------------------
(* Claims on fetchHTML and runLighthouseAudit *)

\* C24: a call of fetchHTML(url) issues one GET, of url, and no other; it
\* returns the response body when the GET succeeds (an empty body as the
\* empty string) and null when the GET is rejected, and never raises.
C24_FetchOneGetNeverRaises ==
    entry = "fetchHTML" =>
        /\ at \in {"fetch", "returned"}
        /\ at = "fetch" => (probes = <<>> /\ local.get = baseUrl /\ "pending" \in DOMAIN ret)
        /\ at = "returned" =>
              /\ Len(probes) = 1
              /\ probes[1].url = baseUrl
              /\ local.get = ""
              /\ "value" \in DOMAIN ret
              /\ probes[1].outcome = "ok" => ret.value = JSString(PageHTML)
              /\ probes[1].outcome = "empty" => ret.value = JSString("")
              /\ probes[1].outcome = "error" => ret.value = NullObj

\* fetchHTML returned null after its GET was rejected.
C24_Witness ==
    /\ Called("fetchHTML")
    /\ Len(probes) = 1
    /\ probes[1].outcome = "error"
    /\ ret = Returned(NullObj)

\* C25 (as claimed): runLighthouseAudit returns the complete audit outcome
\* or null, null whenever the launch or the run failed, and no failure of
\* the launch, the run or the teardown leaves it as an exception.
C25_AuditNeverRaises ==
    Called("runLighthouseAudit") =>
        /\ "value" \in DOMAIN ret
        /\ ret.value \in {NullObj, CategoryObjects(Lhr)}
        /\ (local.chrome = "none" \/ ~IsObject(lighthouseResults)) => ret.value = NullObj

\* auditSite stops at its first failure: a failed fetch is followed by no
\* launch and no probe, a failed or escaped browser audit by no probe and no
\* score.
AuditSiteStopsOnFailure ==
    entry = "auditSite" =>
        /\ (Len(probes) >= 1 /\ probes[1].outcome # "ok") =>
              (Called("auditSite") /\ Len(probes) = 1 /\ local.chrome = "none"
                 /\ ret = Returned(NullObj))
        /\ (at = "returned" /\ Len(probes) = 1) =>
              ~("value" \in DOMAIN ret /\ "seoScore" \in DOMAIN ret.value)
        /\ Len(probes) >= 2 => (local.chrome = "gone" /\ IsObject(lighthouseResults))


----------------------------------------------------------------------------
(* The empty body *)

\* The request went on from the fetch to the browser audit.
ReachedBrowserAuditing(r) == CallsOf(r, "launch") # {}

\* C26: once its GET has settled, a request goes on to the browser audit iff
\* the GET returned a non-empty body.  A GET that succeeds with an empty body
\* is handled like a failed fetch: the failure notice is emitted, no browser
\* is launched, and the request ends with the error event 'Audit failed.'
\* and no results.
C26_EmptyBodyIsFetchFailure ==
    \A r \in Reqs :
        /\ outcome[r].fetch # "-" =>
              (ReachedBrowserAuditing(r) <=> outcome[r].fetch = "ok")
        /\ outcome[r].fetch \in {"empty", "error"} =>
              /\ html[r] \in {"", Null}
              /\ chrome[r] = "none"
              /\ Len(calls[r]) = 1
              /\ emitted[r] = <<"Fetching HTML...">> \o FetchFailedNotice
              /\ Finished(r) =>
                    stream[r] = <<Progress("Fetching HTML...", r)>>
                                \o [i \in 1..Len(FetchFailedNotice) |->
                                       Progress(FetchFailedNotice[i], r)]
                                \o <<ErrorEvent("Audit failed.", r), EndMark(r)>>

\* A request finished after its GET returned an empty body.
C26_Witness ==
    \E r \in Reqs :
        /\ Finished(r)
        /\ outcome[r].fetch = "empty"
        /\ html[r] = ""

====
